---------------------------- MODULE Spec2Model ----------------------------
(***************************************************************************)
(* The ESP flasher: FlashService (src/src/services/FlashService.ts) and    *)
(* the Index page that drives it (src/unnamed/part_000), with the buttons  *)
(* of DeviceCard, FirmwareCard and FlashCard as the guards of the user     *)
(* actions.                                                                *)
(*                                                                         *)
(* One step of the model is one task of the JavaScript event loop: a click *)
(* handler up to its first await, or the continuation that runs when an    *)
(* awaited promise settles, together with the continuations of the         *)
(* callers that are resumed by it in the same microtask checkpoint.        *)
(* React state setters inside one task are applied in order; the rendered  *)
(* buttons are those of the state after the previous task.                 *)
(*                                                                         *)
(*   Spec      the page: the user clicks, the browser settles promises.    *)
(*   SpecSvc   the service alone, called by an arbitrary client            *)
(*             (connect, disconnect, flash in any order).                  *)
(*   SpecFault the page, with a transport on which an awaited operation    *)
(*             inside flash()'s try block may throw (the case the catch    *)
(*             blocks of flash() and handleFlash are written for).         *)
(*   SpecLive  the page, with timers that fire (weak fairness of the      *)
(*             continuation of flash() after each sleep).                  *)
(*   SpecClassify  the static error classifier, handed errors by a client. *)
(*   SpecReconcile  the onProgress callback of handleFlash, handed events  *)
(*             of any step name.                                           *)
(***************************************************************************)
EXTENDS Integers, Sequences, FiniteSets, TLC

---------------------------------------------------------------------------
(* Bounds of the model *)

\* connect() calls in one behaviour
MaxConnects == 2
\* calls of flash() that can be in progress at once
MaxRuns == 2
\* the largest of the small firmware sizes tried (see FileSizes)
MaxFileSize == 51
MaxClassified == 2   \* errors a client hands to the static classifier
MaxFolded == 3       \* events handed to the onProgress callback alone

---------------------------------------------------------------------------
(* Optional values: undefined / null is <<>>, a value v is <<v>> *)

None == <<>>
Some(v) == <<v>>
IsSome(o) == o # <<>>
Val(o) == o[1]

\* this.port: null, or one of the SerialPort objects the browser can hand
\* out: a USB adapter (getInfo() has a usbProductId) and a plain UART
NullPort == "null"
UsbPort == "usb"
UartPort == "uart"
Ports == {UsbPort, UartPort}

Min(a, b) == IF a < b THEN a ELSE b

\* Math.ceil(a / b) for a >= 0, b > 0
Ceil(a, b) == (a + b - 1) \div b

---------------------------------------------------------------------------
(* FlashService.ts: constants of flash() *)

chunks == 50

\* mutant of writeEndProgress: the Writing range ends above Verifying's 90
writeEndProgressTooHigh == 90 + 5

writeEndProgress == 85
\* progress values are kept in units of 1/chunks, so that
\* writeStart + (writeEnd - writeStart) * (i + 1) / chunks is an integer
Scale == chunks
KiB == 1024
MiB == 1024 * 1024

\* FlashService.formatBytes: toFixed(1) rounds to the nearest tenth
\* (ties upward for these non-negative values)
ToFixed1(num, den) ==
  LET tenths == (num * 20 + den) \div (2 * den)
  IN  ToString(tenths \div 10) \o "." \o ToString(tenths % 10)

formatBytes(bytes) ==
  IF bytes < KiB THEN ToString(bytes) \o " B"
  ELSE IF bytes < MiB THEN ToFixed1(bytes, KiB) \o " KB"
  ELSE ToFixed1(bytes, MiB) \o " MB"


---------------------------------------------------------------------------
(* FlashService.ts: errors and their classification *)

\* an Error object: its name and its message
Err(name, message) == [name |-> name, message |-> message]

\* what navigator.serial.requestPort() rejects with
RequestPortErrors ==
  { Err("NotFoundError", "No port selected by the user."),
    Err("SecurityError", "Permission denied.") }

\* what SerialPort.open() rejects with: the port is open already, or the
\* device does not answer
AlreadyOpenError == Err("InvalidStateError", "The port is already open.")
OpenFailedError == Err("NetworkError", "Failed to open serial port.")

\* connect(): catch (error) { throw new Error(`Failed to connect: ...`) }
ConnectError(error) == Err("Error", "Failed to connect: " \o error.message)

\* flash(): throw new Error('No device connected'), outside the try block
NotConnectedError == Err("Error", "No device connected")

\* flash(): catch (error) { throw new Error(`Flash failed: ...`) }
FlashFailedError(error) == Err("Error", "Flash failed: " \o error.message)

FallbackSuggestion == "Check your device connection and try again."

\* mutant of getErrorMessage: the fallback is error.message without the
\* || 'An unknown error occurred'
getErrorMessageNoDefault(error) ==
  IF error.name = "NotFoundError"
    THEN "No device selected. Please connect your ESP device and try again."
  ELSE IF error.name = "NotSupportedError"
    THEN "Web Serial is not supported in this browser. Please use Chrome or Edge."
  ELSE IF error.name = "SecurityError"
    THEN "Permission denied. Please allow access to the serial port."
  ELSE IF error.name = "NetworkError"
    THEN "Failed to communicate with device. Check your connection and try again."
  ELSE error.message

getErrorMessage(error) ==
  IF error.name = "NotFoundError"
    THEN "No device selected. Please connect your ESP device and try again."
  ELSE IF error.name = "NotSupportedError"
    THEN "Web Serial is not supported in this browser. Please use Chrome or Edge."
  ELSE IF error.name = "SecurityError"
    THEN "Permission denied. Please allow access to the serial port."
  ELSE IF error.name = "NetworkError"
    THEN "Failed to communicate with device. Check your connection and try again."
  ELSE IF error.message # "" THEN error.message
  ELSE "An unknown error occurred"

getErrorSuggestion(error) ==
  IF error.name = "NotFoundError"
    THEN "Make sure your ESP device is connected via USB and try clicking Connect again."
  ELSE IF error.name = "NetworkError"
    THEN "Try holding BOOT button, pressing RESET, then releasing BOOT and retry."
  ELSE FallbackSuggestion

---------------------------------------------------------------------------
(* FlashService.ts: detectDevice *)

chips == <<"ESP32", "ESP32-S2", "ESP32-S3", "ESP32-C3", "ESP8266">>

\* the names Math.floor(Math.random() * chips.length) is let to draw
ChipChoices == { chips[1] }

\* SerialPort.getInfo().usbProductId is set for a USB adapter
HasUsbProductId(p) == p = UsbPort

\* this.port?.getInfo()?.usbProductId ? 'USB' : 'Serial'
PortLabel(p) == IF p # NullPort /\ HasUsbProductId(p) THEN "USB" ELSE "Serial"

MacOf(chip) == "24:6F:28:" \o "A1B2C3"

DeviceInfoOf(chip, p) == [chip |-> chip, port |-> PortLabel(p), mac |-> MacOf(chip)]

---------------------------------------------------------------------------
(* FlashService.ts: flash(), its steps and its progress events *)

\* mutant of FlashSteps: the Erasing step is listed whatever eraseFlash is
FlashStepsAlwaysErasing(eraseFlash) ==
  <<"Connecting", "Syncing", "Erasing", "Writing", "Verifying", "Done">>

\* const steps = ['Connecting', 'Syncing', ...(eraseFlash ? ['Erasing'] : []), ...]
FlashSteps(eraseFlash) ==
  <<"Connecting", "Syncing">> \o
  (IF eraseFlash THEN <<"Erasing">> ELSE <<>>) \o
  <<"Writing", "Verifying", "Done">>

\* updateProgress(step, progress, bytesWritten, message): the FlashProgress
\* handed to onProgress; progress is in units of 1/Scale
Progress(step, progress, bytesWritten, totalBytes, message) ==
  [step |-> step, progress |-> progress, bytesWritten |-> bytesWritten,
   totalBytes |-> totalBytes, message |-> message]

\* mutant of writeStartProgress: the write range starts at 30 whatever the flag
writeStartProgressAlways30(eraseFlash) == IF eraseFlash THEN 30 ELSE 30

writeStartProgress(eraseFlash) == IF eraseFlash THEN 30 ELSE 20

\* mutant of chunkSize: Math.floor for Math.ceil
chunkSizeFloor(totalBytes) == totalBytes \div chunks

chunkSize(totalBytes) == Ceil(totalBytes, chunks)


\* steps[currentStep], currentStep counted from 0 as in the source; an index
\* past the end of the array reads undefined
StepAt(steps, currentStep) ==
  IF currentStep + 1 \in DOMAIN steps THEN steps[currentStep + 1] ELSE "undefined"

\* one call of flash(): its options, its locals and where it is suspended.
\*   pc      "sleep500" | "sleep800" | "sleep1500" | "sleep50" | "sleep1000":
\*           the await this.sleep(ms) the call is suspended at;
\*           "resolved" | "rejected": the promise is settled; "idle": no call
\*   events  the FlashProgress records handed to onProgress so far
\*   error   the Error the promise was rejected with
\*   closure what handleFlash captured when it called flash()
\*   connected  whether some connect() had resolved when flash() was called
\*   offset     options.offset, which flash() does not read
IdleRun ==
  [pc |-> "idle", eraseFlash |-> FALSE, totalBytes |-> 0, steps |-> <<>>,
   currentStep |-> 0, i |-> 0, events |-> <<>>, error |-> None,
   closure |-> None, connected |-> FALSE, offset |-> ""]

Sleeping == {"sleep500", "sleep800", "sleep1500", "sleep50", "sleep1000"}

\* updateProgress(...) of a run: the event is appended to what was emitted
Emit(run, progress, bytesWritten, message) ==
  [run EXCEPT !.events = Append(@,
     Progress(StepAt(run.steps, run.currentStep), progress, bytesWritten,
              run.totalBytes, message))]

\* Step 1: Connecting, up to await this.sleep(500)
FlashStep1(run) ==
  [Emit(run, 0, 0, "Establishing connection...") EXCEPT !.pc = "sleep500"]

\* currentStep++; Step 2: Syncing, up to await this.sleep(800)
FlashStep2(run) ==
  [Emit([run EXCEPT !.currentStep = @ + 1], 10 * Scale, 0, "Syncing with device...")
     EXCEPT !.pc = "sleep800"]

\* Step 3: Erasing, up to await this.sleep(1500)
FlashStep3(run) ==
  [Emit(run, 20 * Scale, 0, "Erasing flash memory...") EXCEPT !.pc = "sleep1500"]

\* mutant of FlashChunk: the progress of chunk i is computed from i, not i + 1
FlashChunkProgressFromI(run) ==
  LET bytesWritten == Min((run.i + 1) * chunkSize(run.totalBytes), run.totalBytes)
      progress == writeStartProgress(run.eraseFlash) * Scale
                  + ((writeEndProgress - writeStartProgress(run.eraseFlash))
                     * run.i * Scale) \div chunks
  IN  [Emit(run, progress, bytesWritten,
            "Writing: " \o formatBytes(bytesWritten) \o "/"
                        \o formatBytes(run.totalBytes))
         EXCEPT !.pc = "sleep50"]

\* mutant of FlashChunk: bytesWritten is not cut to totalBytes (no Math.min)
FlashChunkNoMin(run) ==
  LET bytesWritten == (run.i + 1) * chunkSize(run.totalBytes)
      progress == writeStartProgress(run.eraseFlash) * Scale
                  + ((writeEndProgress - writeStartProgress(run.eraseFlash))
                     * (run.i + 1) * Scale) \div chunks
  IN  [Emit(run, progress, bytesWritten,
            "Writing: " \o formatBytes(bytesWritten) \o "/"
                        \o formatBytes(run.totalBytes))
         EXCEPT !.pc = "sleep50"]

\* the body of the write loop for the run's i, up to await this.sleep(50)
FlashChunk(run) ==
  LET bytesWritten == Min((run.i + 1) * chunkSize(run.totalBytes), run.totalBytes)
      progress == writeStartProgress(run.eraseFlash) * Scale
                  + ((writeEndProgress - writeStartProgress(run.eraseFlash))
                     * (run.i + 1) * Scale) \div chunks
  IN  [Emit(run, progress, bytesWritten,
            "Writing: " \o formatBytes(bytesWritten) \o "/"
                        \o formatBytes(run.totalBytes))
         EXCEPT !.pc = "sleep50"]

\* Step 4: Writing: the first event and the first iteration of the loop
FlashStep4(run) ==
  FlashChunk([Emit(run, writeStartProgress(run.eraseFlash) * Scale, 0,
                   "Writing firmware...") EXCEPT !.i = 0])

\* currentStep++; Step 5: Verifying, up to await this.sleep(1000)
FlashStep5(run) ==
  [Emit([run EXCEPT !.currentStep = @ + 1], 90 * Scale, run.totalBytes,
        "Verifying flash...") EXCEPT !.pc = "sleep1000"]

\* mutant of FlashStep6: the last event is emitted without currentStep++
FlashStep6NoIncrement(run) ==
  [Emit(run, 100 * Scale, run.totalBytes,
        "Flash completed successfully!") EXCEPT !.pc = "resolved"]

\* mutant of FlashStep6: after the Done event flash() awaits a promise that
\* nothing settles
FlashStep6NeverSettles(run) ==
  [Emit([run EXCEPT !.currentStep = @ + 1], 100 * Scale, run.totalBytes,
        "Flash completed successfully!") EXCEPT !.pc = "pending"]

\* currentStep++; Step 6: Done, and the promise resolves
FlashStep6(run) ==
  [Emit([run EXCEPT !.currentStep = @ + 1], 100 * Scale, run.totalBytes,
        "Flash completed successfully!") EXCEPT !.pc = "resolved"]

\* flash(options, onProgress) up to its first await. thisPort is this.port.
FlashCall(eraseFlash, totalBytes, thisPort) ==
  IF thisPort = NullPort
    THEN [IdleRun EXCEPT !.pc = "rejected", !.error = Some(NotConnectedError),
                         !.eraseFlash = eraseFlash, !.totalBytes = totalBytes]
    ELSE FlashStep1([IdleRun EXCEPT !.eraseFlash = eraseFlash,
                                    !.totalBytes = totalBytes,
                                    !.steps = FlashSteps(eraseFlash),
                                    !.currentStep = 0])

\* flash() from the sleep it is suspended at up to its next await or its end
FlashResume(run) ==
  CASE run.pc = "sleep500" -> FlashStep2(run)
    [] run.pc = "sleep800" ->
         IF run.eraseFlash
           THEN FlashStep3([run EXCEPT !.currentStep = @ + 1])
           ELSE FlashStep4([run EXCEPT !.currentStep = @ + 1])
    [] run.pc = "sleep1500" -> FlashStep4([run EXCEPT !.currentStep = @ + 1])
    [] run.pc = "sleep50" ->
         IF run.i + 1 < chunks
           THEN FlashChunk([run EXCEPT !.i = @ + 1])
           ELSE FlashStep5(run)
    [] run.pc = "sleep1000" -> FlashStep6(run)

\* an awaited operation of the try block throws error: the catch of flash()
FlashThrow(run, error) ==
  [run EXCEPT !.pc = "rejected", !.error = Some(FlashFailedError(error))]

---------------------------------------------------------------------------
(* part_000 (the Index page): the step list and its handlers *)

Step(name, status) == [name |-> name, status |-> status]

\* steps.map(name => ({ name, status: 'pending' }))
PendingSteps(names) == [k \in DOMAIN names |-> Step(names[k], "pending")]

\* useState<FlashStep[]>([...]): the six steps, all pending
InitialFlashSteps ==
  PendingSteps(<<"Connecting", "Syncing", "Erasing", "Writing", "Verifying", "Done">>)

\* mutant of HandleFlashSteps: the page's array has Erasing whatever the flag
HandleFlashStepsAlwaysErasing(eraseFlash) ==
  <<"Connecting", "Syncing", "Erasing", "Writing", "Verifying", "Done">>

\* handleFlash: const steps = ['Connecting', 'Syncing', ...(eraseFlash ? ...
HandleFlashSteps(eraseFlash) ==
  <<"Connecting", "Syncing">> \o
  (IF eraseFlash THEN <<"Erasing">> ELSE <<>>) \o
  <<"Writing", "Verifying", "Done">>

\* mutant of IndexOf: a name that is not in steps gets steps.length, not -1
IndexOfMissingIsLength(steps, name) ==
  IF \E k \in DOMAIN steps : steps[k] = name
    THEN (CHOOSE k \in DOMAIN steps :
            steps[k] = name /\ \A j \in DOMAIN steps : steps[j] = name => k <= j) - 1
    ELSE Len(steps)

\* steps.indexOf(name), counted from 0; -1 when the name is not in steps
IndexOf(steps, name) ==
  IF \E k \in DOMAIN steps : steps[k] = name
    THEN (CHOOSE k \in DOMAIN steps :
            steps[k] = name /\ \A j \in DOMAIN steps : steps[j] = name => k <= j) - 1
    ELSE -1

\* mutant of OnProgressSteps: the earlier steps are not marked completed
OnProgressStepsNoCompleted(prev, steps, progress) ==
  [k \in DOMAIN prev |->
     IF prev[k].name = progress.step
       THEN [prev[k] EXCEPT !.status = "active"]
       ELSE prev[k]]

\* the updater of setFlashSteps in the onProgress callback: prev is the state,
\* steps the array handleFlash built, progress the event
OnProgressSteps(prev, steps, progress) ==
  [k \in DOMAIN prev |->
     IF prev[k].name = progress.step
       THEN [prev[k] EXCEPT !.status = "active"]
     ELSE IF (k - 1) < IndexOf(steps, progress.step)
       THEN [prev[k] EXCEPT !.status = "completed"]
     ELSE prev[k]]

\* the updaters of the events of one task, applied in order
RECURSIVE FoldProgress(_, _, _)
FoldProgress(prev, steps, events) ==
  IF events = <<>> THEN prev
  ELSE FoldProgress(OnProgressSteps(prev, steps, Head(events)), steps, Tail(events))

\* mutant of CompleteSteps: the final pass over the steps is left out
CompleteStepsLeftOut(prev) == prev

\* success path: prev.map(step => ({ ...step, status: 'completed' }))
CompleteSteps(prev) == [k \in DOMAIN prev |-> [prev[k] EXCEPT !.status = "completed"]]

\* mutant of CatchSteps: the catch block leaves the step list as it is
CatchStepsLeftOut(prev) == prev

\* mutant of CatchSteps: every step that is not completed is marked error
CatchStepsNotCompleted(prev) ==
  [k \in DOMAIN prev |->
     IF prev[k].status # "completed" THEN [prev[k] EXCEPT !.status = "error"] ELSE prev[k]]

\* catch: prev.map(step => step.status === 'active' ? { ...step, status: 'error' } : step)
CatchSteps(prev) ==
  [k \in DOMAIN prev |->
     IF prev[k].status = "active" THEN [prev[k] EXCEPT !.status = "error"] ELSE prev[k]]

\* handleReset: prev.map(step => ({ ...step, status: 'pending' }))
ResetSteps(prev) == [k \in DOMAIN prev |-> [prev[k] EXCEPT !.status = "pending"]]

Messages(events) == [k \in DOMAIN events |-> events[k].message]

---------------------------------------------------------------------------
(* Inputs *)

\* File.size of the firmware files the user of the page can pick
FileSizes == {0, MaxFileSize}

MaxDropSize == 16 * 1024 * 1024

\* File.size of the files a client of the service hands to flash()
ClientFileSizes == FileSizes \cup {4096, MaxDropSize + 1}

DefaultSettings == [baudRate |-> 115200, offset |-> "0x1000", eraseFlash |-> TRUE]

\* an options.offset that is no hexadecimal number
BadOffset == "0xZZ"

\* the options a client of the service hands to flash(): every size with the
\* default offset, and one file with an offset that is no hexadecimal number
ClientOptions ==
  { [eraseFlash |-> e, size |-> size, offset |-> DefaultSettings.offset] :
      e \in BOOLEAN, size \in ClientFileSizes }
  \cup { [eraseFlash |-> TRUE, size |-> MaxFileSize, offset |-> BadOffset] }

\* what the Advanced dialog can be set to
SettingsChoices == { [DefaultSettings EXCEPT !.eraseFlash = e] : e \in BOOLEAN }

\* what a failing awaited operation of a transport throws
TransportErrors == { Err("NetworkError", "The device has been lost.") }

---------------------------------------------------------------------------
(* State *)

VARIABLES
  \* FlashService
  port,              \* this.port: NullPort or the SerialPort
  openPorts,         \* the SerialPorts that are open
  connPc,            \* connect(): "idle" | "requestPort" | "open" | "detect"
  connPort,          \* the SerialPort whose open() connect() awaits
  discPc,            \* disconnect(): "idle" | "close"
  discPort,          \* the SerialPort whose close() disconnect() awaits
  lastDisconnect,    \* how the latest disconnect() ended so far
  runs,              \* the calls of flash() in progress or just settled
  \* Index page, device state
  isConnected, connecting, deviceInfo, deviceError,
  \* Index page, firmware state
  firmwareFile, advancedSettings,
  \* Index page, flash state
  isFlashing, flashProgress, flashLogs, flashSteps, flashError,
  flashCompleted, flashStats,
  \* history
  nConnects,         \* connect() calls so far
  lastConnect,       \* how the latest settled connect() ended
  everConnected,     \* some connect() has resolved
  classified         \* the errors classified by a client, with the results

svcVars == <<port, openPorts, connPc, connPort, discPc, discPort, lastDisconnect>>
deviceVars == <<isConnected, connecting, deviceInfo, deviceError>>
firmwareVars == <<firmwareFile, advancedSettings>>
flashVars == <<isFlashing, flashProgress, flashLogs, flashSteps, flashError,
               flashCompleted, flashStats>>
histVars == <<nConnects, lastConnect, everConnected, classified>>
vars == <<svcVars, runs, deviceVars, firmwareVars, flashVars, histVars>>

RunIds == 1..MaxRuns

Init ==
  /\ port = NullPort
  /\ openPorts = {}
  /\ connPc = "idle"
  /\ connPort = NullPort
  /\ discPc = "idle"
  /\ discPort = NullPort
  /\ lastDisconnect = "none"
  /\ runs = [r \in RunIds |-> IdleRun]
  /\ isConnected = FALSE
  /\ connecting = FALSE
  /\ deviceInfo = None
  /\ deviceError = None
  /\ firmwareFile = None
  /\ advancedSettings = DefaultSettings
  /\ isFlashing = FALSE
  /\ flashProgress = 0
  /\ flashLogs = <<>>
  /\ flashSteps = InitialFlashSteps
  /\ flashError = None
  /\ flashCompleted = FALSE
  /\ flashStats = None
  /\ nConnects = 0
  /\ lastConnect = None
  /\ everConnected = FALSE
  /\ classified = <<>>

---------------------------------------------------------------------------
(* FlashService.connect(), one step per await *)

\* connect() is called: navigator.serial.requestPort() is awaited
ConnectCall ==
  /\ connPc = "idle"
  /\ nConnects < MaxConnects
  /\ connPc' = "requestPort"
  /\ nConnects' = nConnects + 1
  /\ UNCHANGED <<port, openPorts, connPort, discPc, discPort, lastDisconnect>>

\* mutant of RequestPortResolves: a call of flash() in progress uses this.port,
\* and fails when connect() replaces it by a port that is not open
RequestPortResolvesBreaksRuns(p) ==
  /\ connPc = "requestPort"
  /\ port' = p
  /\ connPort' = p
  /\ connPc' = "open"
  /\ runs' = [r \in RunIds |->
                IF runs[r].pc \in Sleeping /\ p \notin openPorts
                  THEN FlashThrow(runs[r], OpenFailedError)
                  ELSE runs[r]]
  /\ UNCHANGED <<openPorts, discPc, discPort, lastDisconnect, deviceVars, firmwareVars,
                 flashVars, histVars>>

\* mutant of RequestPortResolves: the port picked is kept in a local of
\* connect(), and this.port is not assigned
RequestPortResolvesLocal(p) ==
  /\ connPc = "requestPort"
  /\ port' = port
  /\ connPort' = p
  /\ connPc' = "open"
  /\ UNCHANGED <<openPorts, discPc, discPort, lastDisconnect, runs, deviceVars, firmwareVars,
                 flashVars, histVars>>

\* the user picks port p: this.port = p, and this.port.open(...) is awaited
RequestPortResolves(p) ==
  /\ connPc = "requestPort"
  /\ port' = p
  /\ connPort' = p
  /\ connPc' = "open"
  /\ UNCHANGED <<openPorts, discPc, discPort, lastDisconnect, runs, deviceVars, firmwareVars,
                 flashVars, histVars>>

\* open() resolves (only a closed port can be opened): detectDevice() sleeps
OpenResolves ==
  /\ connPc = "open"
  /\ connPort \notin openPorts
  /\ openPorts' = openPorts \cup {connPort}
  /\ connPc' = "detect"
  /\ UNCHANGED <<port, connPort, discPc, discPort, lastDisconnect, runs, deviceVars,
                 firmwareVars, flashVars, histVars>>

\* the error open() rejects with
OpenError == IF connPort \in openPorts THEN AlreadyOpenError ELSE OpenFailedError

\* connect() leaves through its catch block, rejecting with ConnectError(cause)
ConnectRejects(cause) ==
  /\ connPc' = "idle"
  /\ lastConnect' = Some([ok |-> FALSE, cause |-> cause,
                          error |-> ConnectError(cause),
                          wasConnected |-> isConnected])
  /\ UNCHANGED <<port, openPorts, connPort, discPc, discPort, lastDisconnect, nConnects,
                 everConnected, classified>>

\* detectDevice() returns and connect() resolves with the DeviceInfo
ConnectResolves ==
  /\ connPc' = "idle"
  /\ lastConnect' = Some([ok |-> TRUE, cause |-> None, error |-> None,
                          wasConnected |-> isConnected])
  /\ everConnected' = TRUE
  /\ UNCHANGED <<port, openPorts, connPort, discPc, discPort, lastDisconnect, nConnects,
                 classified>>

---------------------------------------------------------------------------
(* part_000: handleConnect, behind the Connect / Reconnect buttons of DeviceCard *)

\* DeviceCard: Connect is rendered unless isConnected && deviceInfo, Reconnect
\* when isConnected; both are disabled={connecting}
ConnectButtonEnabled ==
  /\ (~(isConnected /\ IsSome(deviceInfo))) \/ isConnected
  /\ ~connecting

\* handleConnect up to await flashService.connect()
HandleConnect ==
  /\ ConnectButtonEnabled
  /\ connecting' = TRUE
  /\ deviceError' = None
  /\ ConnectCall
  /\ UNCHANGED <<runs, isConnected, deviceInfo, firmwareVars, flashVars,
                 lastConnect, everConnected, classified>>

\* the catch and finally blocks of handleConnect
HandleConnectCatch(error) ==
  /\ deviceError' = Some(getErrorMessage(error) \o " " \o getErrorSuggestion(error))
  /\ connecting' = FALSE
  /\ UNCHANGED <<isConnected, deviceInfo, runs, firmwareVars, flashVars>>

\* requestPort() rejects: connect() rejects, handleConnect catches
RequestPortRejects ==
  \E cause \in RequestPortErrors :
    /\ connPc = "requestPort"
    /\ ConnectRejects(cause)
    /\ HandleConnectCatch(ConnectError(cause))

\* open() rejects: connect() rejects, handleConnect catches
OpenRejects ==
  /\ connPc = "open"
  /\ ConnectRejects(OpenError)
  /\ HandleConnectCatch(ConnectError(OpenError))

\* connect() resolves: the rest of handleConnect's try block, and finally
DetectResolves ==
  \E chip \in ChipChoices :
    LET info == DeviceInfoOf(chip, port) IN
    /\ connPc = "detect"
    /\ ConnectResolves
    /\ deviceInfo' = Some(info)
    /\ isConnected' = TRUE
    /\ flashLogs' = Append(flashLogs,
                           "Connected to " \o info.chip \o " at " \o info.port)
    /\ connecting' = FALSE
    /\ UNCHANGED <<deviceError, runs, firmwareVars, isFlashing, flashProgress,
                   flashSteps, flashError, flashCompleted, flashStats>>

---------------------------------------------------------------------------
(* part_000: handleFlash, behind the Flash Firmware button of FlashCard *)

\* const canFlash = isConnected && firmwareFile && !isFlashing
canFlash == isConnected /\ IsSome(firmwareFile) /\ ~isFlashing

\* FlashCard: {completed || error ? <Flash Again> : <Flash Firmware>}
OutcomeShown == flashCompleted \/ (IsSome(flashError) /\ Val(flashError) # "")

\* mutant of FlashButtonEnabled: the button is not disabled while flashing
FlashButtonNotDisabled == ~OutcomeShown /\ isConnected /\ IsSome(firmwareFile)

\* FlashCard: the Flash Firmware button is rendered and not
\* disabled={!canFlash || isFlashing}
FlashButtonEnabled == ~OutcomeShown /\ canFlash /\ ~isFlashing

\* the events a task of a run has emitted: those of after that are not in before
Emitted(before, after) == SubSeq(after.events, Len(before.events) + 1, Len(after.events))

\* mutant of HandleFlashCatch: the catch block marks the step and records no error
HandleFlashCatchNoError(error, steps) ==
  /\ flashError' = flashError
  /\ flashSteps' = CatchSteps(steps)

\* the catch block of handleFlash, on the step list as the task has made it
HandleFlashCatch(error, steps) ==
  /\ flashError' = Some(getErrorMessage(error))
  /\ flashSteps' = CatchSteps(steps)

\* the record of a new call of flash() takes the first free place of runs
FreeSlot(r) ==
  /\ runs[r].pc = "idle"
  /\ \A q \in RunIds : runs[q].pc = "idle" => r <= q

\* handleFlash up to the first await of flash(); when flash() rejects at
\* once, also the catch and finally blocks
HandleFlash ==
  /\ FlashButtonEnabled
  /\ IsSome(firmwareFile) /\ isConnected
  /\ \E r \in RunIds : FreeSlot(r)
  /\ LET r == CHOOSE r \in RunIds : FreeSlot(r)
         steps == HandleFlashSteps(advancedSettings.eraseFlash)
         call == FlashCall(advancedSettings.eraseFlash, Val(firmwareFile).size, port)
         run == [call EXCEPT
                   !.connected = everConnected,
                   !.offset = advancedSettings.offset,
                   !.closure = Some([steps |-> steps,
                                     chip |-> IF IsSome(deviceInfo)
                                                THEN Val(deviceInfo).chip
                                                ELSE "Unknown",
                                     baudRate |-> advancedSettings.baudRate,
                                     fileSize |-> Val(firmwareFile).size])]
     IN /\ runs' = [runs EXCEPT ![r] = run]
        /\ flashCompleted' = FALSE
        /\ IF run.pc = "rejected"
             THEN /\ HandleFlashCatch(Val(run.error), PendingSteps(steps))
                  /\ isFlashing' = FALSE
                  /\ flashProgress' = 0
                  /\ flashLogs' = <<>>
             ELSE /\ flashError' = None
                  /\ isFlashing' = TRUE
                  /\ flashProgress' = run.events[Len(run.events)].progress
                  /\ flashLogs' = Messages(run.events)
                  /\ flashSteps' = FoldProgress(PendingSteps(steps), steps, run.events)
  /\ UNCHANGED <<svcVars, deviceVars, firmwareVars, flashStats, nConnects,
                 lastConnect, everConnected, classified>>

\* a sleep of run r ends: flash() goes on to its next await, handing its
\* events to onProgress; when it resolves, the success path of handleFlash
\* and finally
FlashTimer(r) ==
  /\ runs[r].pc \in Sleeping
  /\ IsSome(runs[r].closure)
  /\ LET run == FlashResume(runs[r])
         out == Emitted(runs[r], run)
         closure == Val(run.closure)
         folded == FoldProgress(flashSteps, closure.steps, out)
     IN /\ runs' = [runs EXCEPT ![r] = run]
        /\ flashProgress' = out[Len(out)].progress
        /\ flashLogs' = flashLogs \o Messages(out)
        /\ IF run.pc = "resolved"
             THEN /\ flashSteps' = CompleteSteps(folded)
                  /\ flashCompleted' = TRUE
                  /\ flashStats' = Some([chip |-> closure.chip,
                                         baudRate |-> closure.baudRate,
                                         fileSize |-> closure.fileSize])
                  /\ isFlashing' = FALSE
             ELSE /\ flashSteps' = folded
                  /\ UNCHANGED <<flashCompleted, flashStats, isFlashing>>
  /\ UNCHANGED <<svcVars, deviceVars, firmwareVars, flashError, histVars>>

\* an awaited operation of run r throws: flash() rejects through its catch
\* block, then the catch and finally blocks of handleFlash
FlashAwaitThrows(r) ==
  \E cause \in TransportErrors :
    /\ runs[r].pc \in Sleeping
    /\ IsSome(runs[r].closure)
    /\ LET run == FlashThrow(runs[r], cause)
       IN /\ runs' = [runs EXCEPT ![r] = run]
          /\ HandleFlashCatch(Val(run.error), flashSteps)
    /\ isFlashing' = FALSE
    /\ UNCHANGED <<svcVars, deviceVars, firmwareVars, flashProgress, flashLogs,
                   flashCompleted, flashStats, histVars>>

\* handleReset, behind the Flash Again button, rendered when completed || error.
\* The records of the settled calls of flash() are dropped with it.
HandleReset ==
  /\ OutcomeShown
  /\ flashCompleted' = FALSE
  /\ flashError' = None
  /\ flashProgress' = 0
  /\ flashLogs' = <<>>
  /\ flashStats' = None
  /\ flashSteps' = ResetSteps(flashSteps)
  /\ runs' = [r \in RunIds |->
                IF runs[r].pc \in {"resolved", "rejected"} THEN IdleRun ELSE runs[r]]
  /\ UNCHANGED <<svcVars, deviceVars, firmwareVars, isFlashing, histVars>>

---------------------------------------------------------------------------
(* FirmwareCard *)

File(size) == [size |-> size]

\* handleFileInput, behind the click on the drop zone: if (!disabled) ...
ChooseFile ==
  \E size \in FileSizes :
    /\ ~isFlashing
    /\ firmwareFile' = Some(File(size))
    /\ UNCHANGED <<svcVars, runs, deviceVars, advancedSettings, flashVars, histVars>>

\* handleDrop: the drop zone takes a drop whether disabled or not, and
\* refuses a file over 16MB
DropFile ==
  \E size \in FileSizes :
    /\ size <= MaxDropSize
    /\ firmwareFile' = Some(File(size))
    /\ UNCHANGED <<svcVars, runs, deviceVars, advancedSettings, flashVars, histVars>>

\* the Advanced dialog, whose trigger is disabled={disabled}
ChangeSettings ==
  \E settings \in SettingsChoices :
    /\ ~isFlashing
    /\ advancedSettings' = settings
    /\ UNCHANGED <<svcVars, runs, deviceVars, firmwareFile, flashVars, histVars>>

---------------------------------------------------------------------------
(* The page *)

Next ==
  \/ HandleConnect
  \/ \E p \in Ports : RequestPortResolves(p)
  \/ RequestPortRejects
  \/ OpenResolves
  \/ OpenRejects
  \/ DetectResolves
  \/ HandleFlash
  \/ \E r \in RunIds : FlashTimer(r)
  \/ HandleReset
  \/ ChooseFile
  \/ DropFile
  \/ ChangeSettings

Spec == Init /\ [][Next]_vars

\* the page on a transport whose awaited operations may throw
NextFault == Next \/ \E r \in RunIds : FlashAwaitThrows(r)

SpecFault == Init /\ [][NextFault]_vars

\* the timer of the sleep() that call r of flash() awaits fires, and flash()
\* runs on to its next await or its end: the step FlashTimer(r) takes in runs
FlashContinues(r) ==
  /\ runs[r].pc \in Sleeping
  /\ runs' = [runs EXCEPT ![r] = FlashResume(runs[r])]

\* the page with timers that fire: a sleep() of flash() is a setTimeout, which
\* the event loop runs once its delay has passed, whatever else is clicked
SpecLive == Init /\ [][Next]_vars /\ \A r \in RunIds : WF_runs(FlashContinues(r))

---------------------------------------------------------------------------
(* The service alone: a client that calls connect(), disconnect() and       *)
(* flash() in any order, one call of each at a time, and keeps the events   *)
(* its onProgress callback is handed                                        *)

pageVars == <<deviceVars, firmwareVars, flashVars>>

ClientConnect ==
  /\ ConnectCall
  /\ UNCHANGED <<runs, pageVars, lastConnect, everConnected, classified>>

ClientRequestPortRejects ==
  \E cause \in RequestPortErrors :
    /\ connPc = "requestPort"
    /\ ConnectRejects(cause)
    /\ UNCHANGED <<runs, pageVars>>

ClientOpenRejects ==
  /\ connPc = "open"
  /\ ConnectRejects(OpenError)
  /\ UNCHANGED <<runs, pageVars>>

ClientDetectResolves ==
  /\ connPc = "detect"
  /\ ConnectResolves
  /\ UNCHANGED <<runs, pageVars>>

\* disconnect() is called: with no port it returns; with one, close() is awaited
DisconnectCall ==
  /\ discPc = "idle"
  /\ IF port = NullPort
       THEN /\ lastDisconnect' = "noport"
            /\ UNCHANGED <<discPc, discPort>>
       ELSE /\ discPc' = "close"
            /\ discPort' = port
            /\ lastDisconnect' = "closing"
  /\ UNCHANGED <<port, openPorts, connPc, connPort, runs, pageVars, histVars>>

\* close() resolves (only an open port can be closed): this.port = null
CloseResolves ==
  /\ discPc = "close"
  /\ discPort \in openPorts
  /\ openPorts' = openPorts \ {discPort}
  /\ port' = NullPort
  /\ discPc' = "idle"
  /\ lastDisconnect' = "closed"
  /\ UNCHANGED <<connPc, connPort, discPort, runs, pageVars, histVars>>

\* close() rejects: disconnect() rejects, this.port is left as it is
CloseRejects ==
  /\ discPc = "close"
  /\ discPort \notin openPorts
  /\ discPc' = "idle"
  /\ lastDisconnect' = "failed"
  /\ UNCHANGED <<port, openPorts, connPc, connPort, discPort, runs, pageVars,
                 histVars>>

\* the client calls flash({file, eraseFlash, ...}, onProgress)
ClientFlash ==
  \E options \in ClientOptions :
    /\ \A r \in RunIds : runs[r].pc \notin Sleeping
    /\ runs' = [r \in RunIds |->
                  IF r = 1
                    THEN [FlashCall(options.eraseFlash, options.size, port)
                            EXCEPT !.connected = everConnected,
                                   !.offset = options.offset]
                    ELSE IdleRun]
    /\ UNCHANGED <<svcVars, pageVars, histVars>>

\* a sleep of the client's run ends
ClientFlashTimer(r) ==
  /\ runs[r].pc \in Sleeping
  /\ runs[r].closure = None
  /\ runs' = [runs EXCEPT ![r] = FlashResume(runs[r])]
  /\ UNCHANGED <<svcVars, pageVars, histVars>>

NextSvc ==
  \/ ClientConnect
  \/ \E p \in Ports : RequestPortResolves(p)
  \/ ClientRequestPortRejects
  \/ OpenResolves
  \/ ClientOpenRejects
  \/ ClientDetectResolves
  \/ DisconnectCall
  \/ CloseResolves
  \/ CloseRejects
  \/ ClientFlash
  \/ \E r \in RunIds : ClientFlashTimer(r)

SpecSvc == Init /\ [][NextSvc]_vars

---------------------------------------------------------------------------
(* The static classifier alone: a client hands errors to getErrorMessage   *)
(* and getErrorSuggestion.                                                 *)

\* error.name of the errors classified: the four names the classifier knows,
\* Error, and two DOMException and built-in names it does not know
ErrorNames ==
  { "NotFoundError", "NotSupportedError", "SecurityError", "NetworkError",
    "Error", "InvalidStateError", "TypeError" }

\* error.message of the errors classified
ErrorMessages == { "", "The device has been lost." }

\* the errors classified: every name with every message, and the errors
\* connect() and flash() throw
ClassifiedErrors ==
  { Err(name, message) : name \in ErrorNames, message \in ErrorMessages }
  \cup { ConnectError(e) : e \in RequestPortErrors \cup {OpenFailedError} }
  \cup { FlashFailedError(e) : e \in TransportErrors }
  \cup { NotConnectedError }

\* FlashService.getErrorMessage(error) and FlashService.getErrorSuggestion(error)
Classify ==
  \E error \in ClassifiedErrors :
    /\ Len(classified) < MaxClassified
    /\ classified' = Append(classified,
                            [error |-> error,
                             message |-> getErrorMessage(error),
                             suggestion |-> getErrorSuggestion(error)])
    /\ UNCHANGED <<svcVars, runs, pageVars, nConnects, lastConnect, everConnected>>

SpecClassify == Init /\ [][Classify]_vars

---------------------------------------------------------------------------
(* The onProgress callback of handleFlash alone: a service hands it events  *)
(* of any step name, after handleFlash has set the step list of the run.   *)

\* progress.step of the events handed over: the six names of flash() (Erasing
\* is not in the plan of a run without erase) and one no plan has
StepNames ==
  { "Connecting", "Syncing", "Erasing", "Writing", "Verifying", "Done", "Rebooting" }

\* the events handed over; the message of each is its step name
ReconcilerEvents == { Progress(name, 0, 0, 0, name) : name \in StepNames }

\* the state handleFlash leaves before the first event: the settings the run
\* was started with, the steps of its array pending, an empty log
InitReconcile ==
  /\ port = NullPort
  /\ openPorts = {}
  /\ connPc = "idle"
  /\ connPort = NullPort
  /\ discPc = "idle"
  /\ discPort = NullPort
  /\ lastDisconnect = "none"
  /\ runs = [r \in RunIds |-> IdleRun]
  /\ isConnected = FALSE
  /\ connecting = FALSE
  /\ deviceInfo = None
  /\ deviceError = None
  /\ firmwareFile = None
  /\ advancedSettings \in SettingsChoices
  /\ isFlashing = FALSE
  /\ flashProgress = 0
  /\ flashLogs = <<>>
  /\ flashSteps = PendingSteps(HandleFlashSteps(advancedSettings.eraseFlash))
  /\ flashError = None
  /\ flashCompleted = FALSE
  /\ flashStats = None
  /\ nConnects = 0
  /\ lastConnect = None
  /\ everConnected = FALSE
  /\ classified = <<>>

\* the callback handleFlash passes to flash(): (progress) => { ... }
OnProgress(progress) ==
  /\ Len(flashLogs) < MaxFolded
  /\ flashProgress' = progress.progress
  /\ flashLogs' = Append(flashLogs, progress.message)
  /\ flashSteps' = OnProgressSteps(flashSteps,
                                   HandleFlashSteps(advancedSettings.eraseFlash),
                                   progress)
  /\ UNCHANGED <<svcVars, runs, deviceVars, firmwareVars, isFlashing, flashError,
                 flashCompleted, flashStats, histVars>>

NextReconcile == \E progress \in ReconcilerEvents : OnProgress(progress)

SpecReconcile == InitReconcile /\ [][NextReconcile]_vars

---------------------------------------------------------------------------
(* Properties *)

\* the phase plan of a run, as the specification gives it
PhasePlan(eraseFlash) ==
  IF eraseFlash
    THEN <<"Connecting", "Syncing", "Erasing", "Writing", "Verifying", "Done">>
    ELSE <<"Connecting", "Syncing", "Writing", "Verifying", "Done">>

Started(run) == run.pc # "idle"
InProgress(run) == run.pc \in Sleeping
LastEvent(run) == run.events[Len(run.events)]

\* the phases of a sequence of events: its step names, a run of equal names
\* taken once
RECURSIVE Phases(_)
Phases(events) ==
  IF events = <<>> THEN <<>>
  ELSE LET rest == Phases(Tail(events))
       IN  IF rest # <<>> /\ Head(rest) = Head(events).step
             THEN rest
             ELSE <<Head(events).step>> \o rest

IsPrefix(a, b) == Len(a) <= Len(b) /\ \A k \in 1..Len(a) : a[k] = b[k]

\* the steps before the one called name are completed, that one has status
\* mid, the later ones are pending
StatusesAround(steps, name, mid) ==
  \E p \in DOMAIN steps :
    /\ steps[p].name = name
    /\ \A k \in DOMAIN steps :
         steps[k].status = (IF k < p THEN "completed"
                            ELSE IF k = p THEN mid ELSE "pending")

\* the run handleFlash is waiting for
PageRuns == { r \in RunIds : IsSome(runs[r].closure) }

\* C1: the phases of the events a call of flash() has emitted so far are the
\* first phases of its plan, each once and in the plan's order, and those of a
\* call that has resolved are the whole plan
C1_PhasesFollowPlan ==
  \A r \in RunIds :
    Started(runs[r]) =>
      /\ IsPrefix(Phases(runs[r].events), PhasePlan(runs[r].eraseFlash))
      /\ runs[r].pc = "resolved" =>
           Phases(runs[r].events) = PhasePlan(runs[r].eraseFlash)

C1_Witness ==
  \E r \in RunIds :
    /\ runs[r].pc = "resolved"
    /\ ~runs[r].eraseFlash
    /\ Len(runs[r].events) = chunks + 5

\* C2: while a run of the page is in progress the steps before the step of
\* its latest event are completed, that step is active and the later ones
\* are pending; and folding one more event of the same phase changes nothing
C2_StepsReconciled ==
  \A r \in PageRuns :
    InProgress(runs[r]) =>
      /\ StatusesAround(flashSteps, LastEvent(runs[r]).step, "active")
      /\ OnProgressSteps(flashSteps, Val(runs[r].closure).steps, LastEvent(runs[r]))
           = flashSteps

C2_Witness ==
  \E r \in PageRuns :
    /\ runs[r].pc = "sleep50"
    /\ runs[r].i = 3
    /\ runs[r].events[Len(runs[r].events) - 1].step = "Writing"
    /\ \E k \in DOMAIN flashSteps :
         flashSteps[k].name = "Writing" /\ flashSteps[k].status = "active"

\* C3: a call of flash() made when no connect() had resolved is rejected
\* with 'No device connected' and has emitted no event
C3_FlashNeedsConnect ==
  \A r \in RunIds :
    (Started(runs[r]) /\ ~runs[r].connected) =>
      /\ runs[r].pc = "rejected"
      /\ runs[r].error = Some(NotConnectedError)
      /\ runs[r].events = <<>>

\* C4: at most one serial port is open
C4_OneOpenPort == Cardinality(openPorts) <= 1

\* C5: once a connect() has failed, the service holds no port and the page
\* does not show a connected device
C5_FailedConnectDisconnected ==
  (connPc = "idle" /\ IsSome(lastConnect) /\ ~Val(lastConnect).ok) =>
    /\ port = NullPort
    /\ ~isConnected

\* C6: once a connect() has failed because the user picked no port, the
\* page shows the no-device-selected message and the reconnect suggestion
C6_NoDeviceSelectedClassified ==
  (/\ ~connecting
   /\ IsSome(lastConnect)
   /\ ~Val(lastConnect).ok
   /\ Val(lastConnect).cause.name = "NotFoundError") =>
    deviceError =
      Some("No device selected. Please connect your ESP device and try again."
           \o " " \o
           "Make sure your ESP device is connected via USB and try clicking Connect again.")

\* C7: after a run of the page has failed with its latest event in phase X,
\* the steps before X are completed, X is error and the later ones pending
C7_FailedStepIsError ==
  \A r \in PageRuns :
    (runs[r].pc = "rejected" /\ runs[r].events # <<>>) =>
      StatusesAround(flashSteps, LastEvent(runs[r]).step, "error")

C7_Witness ==
  \E r \in PageRuns :
    /\ runs[r].pc = "rejected"
    /\ runs[r].events # <<>>
    /\ LastEvent(runs[r]).step = "Writing"
    /\ ~runs[r].eraseFlash
    /\ flashSteps[3].status = "error"

\* C8: after a run of the page has resolved, the steps are those of the
\* run's plan, all completed, and the last event has bytesWritten =
\* totalBytes = the size of the firmware file
C8_SuccessAllCompleted ==
  \A r \in PageRuns :
    runs[r].pc = "resolved" =>
      /\ [k \in DOMAIN flashSteps |-> flashSteps[k].name]
           = PhasePlan(runs[r].eraseFlash)
      /\ \A k \in DOMAIN flashSteps : flashSteps[k].status = "completed"
      /\ LastEvent(runs[r]).bytesWritten = LastEvent(runs[r]).totalBytes
      /\ LastEvent(runs[r]).totalBytes = Val(runs[r].closure).fileSize

C8_Witness ==
  \E r \in PageRuns :
    /\ runs[r].pc = "resolved"
    /\ runs[r].eraseFlash
    /\ runs[r].totalBytes = MaxFileSize
    /\ flashCompleted

\* C9: at most one call of flash() is in progress
C9_OneRunAtATime == Cardinality({ r \in RunIds : InProgress(runs[r]) }) <= 1

C9_Witness ==
  \E r \in PageRuns :
    /\ runs[r].pc = "sleep50"
    /\ connecting
    /\ IsSome(firmwareFile)
    /\ isConnected
    /\ ~FlashButtonEnabled

\* C10: the progress of the events of a call of flash() never decreases
\* from one event to the next and lies in [0, 100]
C10_ProgressMonotone ==
  \A r \in RunIds :
    LET events == runs[r].events IN
    /\ \A k \in DOMAIN events :
         events[k].progress >= 0 /\ events[k].progress <= 100 * Scale
    /\ \A k \in 1..(Len(events) - 1) : events[k].progress <= events[k + 1].progress

C10_Witness ==
  \E r \in RunIds :
    /\ runs[r].pc = "resolved"
    /\ runs[r].eraseFlash
    /\ Len(runs[r].events) = chunks + 6
    /\ LastEvent(runs[r]).progress = 100 * Scale

\* C11: the bytesWritten of the events of a call of flash() never decreases
\* from one event to the next and lies in [0, totalBytes], and every event
\* carries the same totalBytes, the size of the file
C11_BytesWrittenMonotone ==
  \A r \in RunIds :
    LET events == runs[r].events IN
    /\ \A k \in DOMAIN events :
         /\ events[k].bytesWritten >= 0
         /\ events[k].bytesWritten <= events[k].totalBytes
         /\ events[k].totalBytes = runs[r].totalBytes
    /\ \A k \in 1..(Len(events) - 1) :
         events[k].bytesWritten <= events[k + 1].bytesWritten

C11_Witness ==
  \E r \in RunIds :
    /\ runs[r].pc = "resolved"
    /\ runs[r].totalBytes = MaxFileSize
    /\ runs[r].totalBytes % chunks # 0
    /\ LastEvent(runs[r]).bytesWritten = MaxFileSize

\* C12: the page holds one outcome for a call of flash() that has ended,
\* success (flashCompleted with flashStats) for one that resolved and failure
\* (flashError) for one that rejected, never both and never neither; it holds
\* none while the call is in progress, and success only once the Done event of
\* the call has been delivered
C12_OneOutcome ==
  /\ \A r \in PageRuns :
       /\ runs[r].pc = "resolved" =>
            flashCompleted /\ IsSome(flashStats) /\ flashError = None
       /\ runs[r].pc = "rejected" =>
            IsSome(flashError) /\ ~flashCompleted /\ flashStats = None
       /\ InProgress(runs[r]) =>
            ~flashCompleted /\ flashStats = None /\ flashError = None
  /\ (flashCompleted \/ IsSome(flashStats)) =>
       \E r \in PageRuns : /\ runs[r].pc = "resolved"
                           /\ LastEvent(runs[r]).step = "Done"
  /\ IsSome(flashError) => \E r \in PageRuns : runs[r].pc = "rejected"

C12_Witness ==
  \E r \in PageRuns :
    /\ runs[r].pc = "rejected"
    /\ runs[r].events # <<>>
    /\ LastEvent(runs[r]).step = "Writing"
    /\ IsSome(flashError)
    /\ ~flashCompleted

\* C13: with timers that fire, a call of flash() by the page that has emitted
\* its first event and is in progress comes to its end: it has emitted Done and
\* resolved, or it has failed, and isFlashing is false then
C13_RunTerminates ==
  \A r \in RunIds :
    (r \in PageRuns /\ InProgress(runs[r]) /\ runs[r].events # <<>>)
      ~> (/\ \/ runs[r].pc = "resolved" /\ LastEvent(runs[r]).step = "Done"
             \/ runs[r].pc = "rejected"
          /\ ~isFlashing)

C13_Witness ==
  \E r \in PageRuns :
    /\ runs[r].pc = "resolved"
    /\ LastEvent(runs[r]).step = "Done"
    /\ Len(runs[r].events) > chunks
    /\ ~isFlashing

\* C14: a call of flash() that has resolved has emitted exactly one Done
\* event, with progress 100 and bytesWritten = totalBytes, as its last event;
\* a call that has emitted Done has resolved with it
C14_DoneIsLast ==
  \A r \in RunIds :
    LET events == runs[r].events
        dones == { k \in DOMAIN events : events[k].step = "Done" }
    IN  /\ runs[r].pc = "resolved" => dones = { Len(events) } /\ events # <<>>
        /\ dones # {} => runs[r].pc = "resolved"
        /\ \A k \in dones :
             /\ events[k].progress = 100 * Scale
             /\ events[k].bytesWritten = runs[r].totalBytes
             /\ events[k].totalBytes = runs[r].totalBytes

C14_Witness ==
  \E r \in RunIds :
    /\ runs[r].pc = "resolved"
    /\ runs[r].totalBytes = MaxFileSize
    /\ Cardinality({ k \in DOMAIN runs[r].events :
                       runs[r].events[k].step = "Done" }) = 1
    /\ LastEvent(runs[r]).progress = 100 * Scale

\* of the offsets flash() is called with, the non-negative hexadecimal ones
ValidHexOffset(offset) == offset = DefaultSettings.offset

\* options the claim calls valid: a firmware that is not empty, of at most
\* 16 MiB, at a hexadecimal offset
ValidOptions(run) ==
  /\ run.totalBytes > 0
  /\ run.totalBytes <= MaxDropSize
  /\ ValidHexOffset(run.offset)

\* C15: a call of flash() with invalid options (an empty firmware, one of more
\* than 16 MiB, an offset that is no hexadecimal number) has failed at once:
\* it has rejected and emitted no event
C15_InvalidOptionsRejected ==
  \A r \in RunIds :
    (Started(runs[r]) /\ ~ValidOptions(runs[r])) =>
      /\ runs[r].pc = "rejected"
      /\ runs[r].events = <<>>

\* the phase an error of flash() names, if it names one
CarriesPhase(error, phase) ==
  /\ "phase" \in DOMAIN error
  /\ error.phase = phase

\* C16: a call of flash() that failed after an event has stopped, no
\* continuation of it is left that could emit an event of a later phase, and
\* the error it rejected with carries the phase of its last event, the one
\* the failure occurred at
C16_FailureCarriesPhase ==
  \A r \in RunIds :
    (runs[r].pc = "rejected" /\ runs[r].events # <<>>) =>
      /\ ~ENABLED FlashContinues(r)
      /\ IsSome(runs[r].error)
      /\ CarriesPhase(Val(runs[r].error), LastEvent(runs[r]).step)

\* C17: the classifier is total: for every error classified, one of the four
\* named kinds or any other, one with an empty message included, the message
\* and the suggestion it returns are not empty
C17_ClassifierTotal ==
  \A k \in DOMAIN classified :
    /\ classified[k].message # ""
    /\ classified[k].suggestion # ""

C17_Witness ==
  \E k \in DOMAIN classified :
    /\ classified[k].error = Err("TypeError", "")
    /\ classified[k].message = "An unknown error occurred"
    /\ classified[k].suggestion = FallbackSuggestion

\* C18: disconnect() called with no port held changes nothing of the service
\* and does not fail, and every call of disconnect() that ends has not failed
\* and leaves no port held, so that a second call in a row is the call with
\* no port and leaves the state of the first
C18_DisconnectIdempotent ==
  [][ /\ (DisconnectCall /\ port = NullPort) =>
           /\ UNCHANGED <<port, openPorts, discPc, discPort>>
           /\ lastDisconnect' = "noport"
      /\ (discPc = "close" /\ discPc' = "idle") =>
           /\ lastDisconnect' # "failed"
           /\ port' = NullPort ]_vars

\* the events of a call of flash() that belong to phase name
EventsOf(run, name) == { k \in DOMAIN run.events : run.events[k].step = name }

\* C19: a call of flash() with eraseFlash emits an Erasing event before it
\* writes and one without never emits one, and its first Writing event has
\* progress 30 with eraseFlash and 20 without
C19_EraseDeterminesPlan ==
  \A r \in RunIds :
    LET run == runs[r]
        writing == EventsOf(run, "Writing")
    IN  /\ EventsOf(run, "Erasing") # {} => run.eraseFlash
        /\ writing # {} =>
             /\ run.eraseFlash <=> EventsOf(run, "Erasing") # {}
             /\ \A k \in writing :
                  (\A j \in writing : k <= j) =>
                    run.events[k].progress =
                      (IF run.eraseFlash THEN 30 ELSE 20) * Scale

C19_Witness ==
  \E r \in RunIds :
    /\ ~runs[r].eraseFlash
    /\ EventsOf(runs[r], "Erasing") = {}
    /\ \E k \in EventsOf(runs[r], "Writing") :
         /\ runs[r].events[k - 1].step = "Syncing"
         /\ runs[r].events[k].progress = 20 * Scale

\* C20: while a connect attempt of the page is in progress, and after the
\* latest attempt has failed, the page holds no device descriptor
C20_DescriptorCleared ==
  (\/ connecting
   \/ connPc # "idle"
   \/ IsSome(lastConnect) /\ ~Val(lastConnect).ok) =>
    deviceInfo = None

\* whether the event at place f of events opens the Writing phase
OpensWriting(events, f) ==
  /\ events[f].step = "Writing"
  /\ f = 1 \/ events[f - 1].step # "Writing"

\* the place in run.events of the event that opens the Writing phase (0 when
\* there is none); the k-th chunk event is k places after it
WriteStart(run) ==
  IF \E f \in DOMAIN run.events : OpensWriting(run.events, f)
    THEN CHOOSE f \in DOMAIN run.events : OpensWriting(run.events, f)
    ELSE 0

\* the chunk events emitted so far, numbered from 1, of a run whose Writing
\* phase opens at place f
ChunkEvents(run, f) ==
  IF f = 0 THEN {}
  ELSE { k \in 1..chunks :
           /\ f + k <= Len(run.events)
           /\ run.events[f + k].step = "Writing" }

\* C21 (as stated): each of the first 49 chunk events advances bytesWritten by
\* exactly ceil(totalBytes / 50) over the Writing event before it, and the
\* 50th by the bytes that remain
C21_EqualChunks ==
  \A r \in RunIds :
    LET run == runs[r]
        f == WriteStart(run)
    IN  \A k \in ChunkEvents(run, f) :
          IF k < chunks
            THEN run.events[f + k].bytesWritten - run.events[f + k - 1].bytesWritten
                   = Ceil(run.totalBytes, chunks)
            ELSE run.events[f + k].bytesWritten = run.totalBytes

\* C21 (amended): the k-th chunk event has bytesWritten
\* min(k * ceil(totalBytes / 50), totalBytes): it advances by exactly the chunk
\* size while k chunks fit in the file, by the bytes that remain at the first
\* chunk that passes the end, by 0 after it, and the 50th has totalBytes
C21_ChunksTruncated ==
  \A r \in RunIds :
    LET run == runs[r]
        f == WriteStart(run)
        size == Ceil(run.totalBytes, chunks)
    IN  \A k \in ChunkEvents(run, f) :
          /\ run.events[f + k].bytesWritten = Min(k * size, run.totalBytes)
          /\ k * size <= run.totalBytes =>
               run.events[f + k].bytesWritten
                 - run.events[f + k - 1].bytesWritten = size
          /\ k = chunks => run.events[f + k].bytesWritten = run.totalBytes

C21_Witness ==
  \E r \in RunIds :
    LET run == runs[r]
        f == WriteStart(run)
    IN  /\ run.totalBytes = MaxFileSize
        /\ ChunkEvents(run, f) = 1..chunks
        /\ \E k \in 2..(chunks - 1) :
             /\ run.events[f + k - 1].bytesWritten < MaxFileSize
             /\ run.events[f + k].bytesWritten = MaxFileSize
             /\ run.events[f + k].bytesWritten - run.events[f + k - 1].bytesWritten
                  < Ceil(MaxFileSize, chunks)
             /\ run.events[f + k + 1].bytesWritten = MaxFileSize

\* C22: every Writing event has its progress in the range of the phase, 30 to
\* 85 with eraseFlash and 20 to 85 without; the k-th chunk event has progress
\* writeStart + (85 - writeStart) * k / 50; the last Writing event is the 50th
\* chunk event, with progress 85 and bytesWritten = totalBytes
C22_WritingProgress ==
  \A r \in RunIds :
    LET run == runs[r]
        f == WriteStart(run)
        chunkEvents == ChunkEvents(run, f)
        writeStart == IF run.eraseFlash THEN 30 ELSE 20
    IN  /\ \A j \in DOMAIN run.events :
             run.events[j].step = "Writing" =>
               /\ writeStart * Scale <= run.events[j].progress
               /\ run.events[j].progress <= 85 * Scale
               /\ f <= j /\ j <= f + chunks
        /\ \A k \in chunkEvents :
             run.events[f + k].progress * 50
               = (writeStart * 50 + (85 - writeStart) * k) * Scale
        /\ (run.events # <<>> /\ LastEvent(run).step \in {"Verifying", "Done"}) =>
             /\ chunks \in chunkEvents
             /\ run.events[f + chunks].progress = 85 * Scale
             /\ run.events[f + chunks].bytesWritten = run.totalBytes
             /\ run.events[f + chunks + 1].step = "Verifying"

C22_Witness ==
  \E r \in RunIds :
    LET run == runs[r]
        f == WriteStart(run)
    IN  /\ run.eraseFlash
        /\ run.totalBytes = MaxFileSize
        /\ EventsOf(run, "Verifying") # {}
        /\ run.events[f].progress = 30 * Scale
        /\ run.events[f + 1].progress * 10 = 311 * Scale
        /\ run.events[f + chunks].progress = 85 * Scale

\* the plans of run r: the steps array of flash(), the one handleFlash built,
\* and the names of the step list the page shows
PlansAgree(r) ==
  /\ runs[r].steps = PhasePlan(runs[r].eraseFlash)
  /\ Val(runs[r].closure).steps = runs[r].steps
  /\ [k \in DOMAIN flashSteps |-> flashSteps[k].name] = runs[r].steps
  /\ \A k \in DOMAIN runs[r].events :
       \E p \in DOMAIN runs[r].steps : runs[r].steps[p] = runs[r].events[k].step

\* C23: for a run of the page that has entered its phases, the steps array of
\* flash() and the one of handleFlash are the same sequence, the plan of the
\* run's eraseFlash, and every event's step name is in it; no step taken while
\* the run is in progress, a change of settings or a connect among them,
\* changes either array or the flag
C23_PlanFixed ==
  /\ [](\A r \in PageRuns : runs[r].events # <<>> => PlansAgree(r))
  /\ [][\A r \in PageRuns :
          InProgress(runs[r]) =>
            /\ runs'[r].eraseFlash = runs[r].eraseFlash
            /\ runs'[r].steps = runs[r].steps
            /\ runs'[r].closure = runs[r].closure]_vars

C23_Witness ==
  \E r \in PageRuns :
    /\ InProgress(runs[r])
    /\ ~runs[r].eraseFlash
    /\ connecting
    /\ LastEvent(runs[r]).step = "Writing"
    /\ PlansAgree(r)

\* whether name is a step of plan
InPlan(plan, name) == \E p \in DOMAIN plan : plan[p] = name

\* C24: an event whose step name is not in the plan of the run is a no-op for
\* the step list: after any events the list is what folding the events of
\* known names alone gives, so the statuses stand as they were at each unknown
\* event and the known events after it are folded as without it
C24_UnknownStepNoOp ==
  LET plan == PhasePlan(advancedSettings.eraseFlash)
      events == [k \in DOMAIN flashLogs |-> Progress(flashLogs[k], 0, 0, 0, flashLogs[k])]
      known == SelectSeq(events, LAMBDA e : InPlan(plan, e.step))
  IN  flashSteps = FoldProgress(PendingSteps(plan), plan, known)

C24_Witness ==
  /\ ~advancedSettings.eraseFlash
  /\ flashLogs = <<"Syncing", "Rebooting", "Writing">>
  /\ StatusesAround(flashSteps, "Writing", "active")

\* C25: while a run of the page is in progress the activity log is the
\* messages of the events the run has emitted, in their order, and nothing else
C25_LogIsRunMessages ==
  \A r \in PageRuns :
    InProgress(runs[r]) => flashLogs = Messages(runs[r].events)

\* C26: whenever isConnected is true the service holds a port and the page a
\* device descriptor, and no call of flash() made by handleFlash has failed
\* with 'No device connected'
C26_ConnectedHasPort ==
  /\ isConnected => port # NullPort /\ IsSome(deviceInfo)
  /\ \A r \in PageRuns :
       /\ runs[r].error # Some(NotConnectedError)
       /\ runs[r].events # <<>>

C26_Witness ==
  /\ isConnected
  /\ port = UartPort
  /\ IsSome(deviceInfo)
  /\ IsSome(lastConnect) /\ Val(lastConnect).ok
  /\ \E r \in PageRuns : InProgress(runs[r])

\* C27: a connect attempt made while a run of the page is in progress does not
\* change the run: no step of connect() or handleConnect touches the record
\* of the run, and every other step leaves it or takes it to what flash()
\* alone makes of it, so its events and its outcome are those of the run
\* without the attempt
C27_ConnectLeavesRun ==
  [][\A r \in PageRuns :
       InProgress(runs[r]) =>
         IF connPc' # connPc \/ connecting' # connecting \/ port' # port
           THEN runs'[r] = runs[r]
           ELSE runs'[r] \in {runs[r], FlashResume(runs[r])}]_vars

C27_Witness ==
  \E r \in PageRuns :
    /\ runs[r].pc = "resolved"
    /\ runs[r].eraseFlash
    /\ Len(runs[r].events) = chunks + 6
    /\ flashCompleted
    /\ nConnects = 2
    /\ port = UartPort
    /\ connPc = "detect"

\* the steps of the page's list that have status
WithStatus(status) == { k \in DOMAIN flashSteps : flashSteps[k].status = status }

\* the names of the page's step list, in its order
StepNamesOf(steps) == [k \in DOMAIN steps |-> steps[k].name]

\* C28: at most one step is active; when isFlashing is false none is: after
\* success all are completed, after failure the active one has become error,
\* and with no outcome all are pending; handleReset runs only with an outcome
\* shown and leaves the names and the order of the steps, all pending
C28_OneActiveStep ==
  /\ [](/\ Cardinality(WithStatus("active")) <= 1
        /\ ~isFlashing => WithStatus("active") = {}
        /\ flashCompleted => WithStatus("completed") = DOMAIN flashSteps
        /\ IsSome(flashError) => Cardinality(WithStatus("error")) = 1
        /\ (~isFlashing /\ ~flashCompleted /\ flashError = None) =>
             WithStatus("pending") = DOMAIN flashSteps)
  /\ [][HandleReset =>
          /\ flashCompleted \/ IsSome(flashError)
          /\ StepNamesOf(flashSteps') = StepNamesOf(flashSteps)
          /\ \A k \in DOMAIN flashSteps' : flashSteps'[k].status = "pending"]_vars

C28_Witness ==
  /\ ~isFlashing
  /\ IsSome(flashError)
  /\ WithStatus("active") = {}
  /\ WithStatus("error") = {3}
  /\ WithStatus("completed") = {1, 2}
  /\ Len(flashSteps) = 5

=============================================================================
